---------------------------- MODULE Spec2Model ----------------------------
(***************************************************************************)
(* Model of examples/sql_query_opt/evaluator.py: the Plan Aggregator       *)
(* (evaluate_internal, _walk), the Bottleneck Ranker                       *)
(* (_summarize_bottlenecks_from_plan), and the two public entry points     *)
(* evaluate and main with their optional steps: the wall-clock sampling    *)
(* loop, the attached bottleneck summary and main's TIMING ON plan.        *)
(*                                                                         *)
(* Representation.                                                         *)
(*  - A JSON number field of a plan node is a tagged value: t = "missing"  *)
(*    (key absent), "null" (JSON null), "int" (an integer, v) or "str" (a  *)
(*    string that is not a number, e.g. "abc").                            *)
(*  - A string field (Node Type, Relation Name, Alias) that is absent is   *)
(*    the empty string.                                                    *)
(*  - "Plans" is the sequence of children, <<>> when the key is absent.    *)
(*  - "Plan" is <<>> when the key is absent and <<p>> when it holds p.     *)
(*  - "Actual Total Time" (att) is in microseconds.                        *)
(*  - "Filter" is the sequence of the lines of the text (the pieces        *)
(*    between newline characters), <<>> when the key is absent.            *)
(*  - extra is TRUE when the object holds a key that none of the fields    *)
(*    above shows: a key the program never reads ("foo"), or one of the    *)
(*    keys above holding an empty string or an empty list, which every     *)
(*    read of the program takes as absent.  Only bool() of the object      *)
(*    tells such an object from {}.                                        *)
(*  - Real numbers are fixed point: a logarithm is in units of 1/10000     *)
(*    (Unit), a sub-score in units of 1/10000, a weight and a pareto       *)
(*    fraction in hundredths and a severity in units of 1/20000 (so that   *)
(*    the coefficient 1.5 stays integral).  Costs are whole thousands.     *)
(*  - A combined score is a record: n millionths (unit "1e-6"), or n       *)
(*    thousands (unit "1e3") for a blend whose weights were divided by     *)
(*    the floor 1e-9.                                                      *)
(*  - Wall-clock samples are whole milliseconds; a median is in half       *)
(*    milliseconds, since it may be the mean of two samples.               *)
(*  - The program compares severities as floating-point numbers.  A model  *)
(*    severity is within SeverityErr of the real number, so a comparison   *)
(*    the rounding could turn either way (a tie, or a difference inside    *)
(*    the error) is a choice between both outcomes.  Groups with the same  *)
(*    counters have the same floating-point severity.                      *)
(*  - An environment variable or option is <<>> when unset and <<v>> when  *)
(*    set to v.                                                            *)
(*  - A wall-clock sample is a tagged value: a number of milliseconds, or  *)
(*    NaN (nan = TRUE), which is the one float not equal to itself.        *)
(***************************************************************************)
EXTENDS Integers, Sequences, FiniteSets, TLC

VARIABLES planObj, doc, pc, err, plan, stack, acc, scan_types,
          pareto, top, local, ranked, keep, cum, topk, results,
          entry, select_runs, samples, ok, calls, per_node_top_time

vars == <<planObj, doc, pc, err, plan, stack, acc, scan_types,
          pareto, top, local, ranked, keep, cum, topk, results,
          entry, select_runs, samples, ok, calls, per_node_top_time>>

\* The state of the public entry points: which of them is running ("" when
\* evaluate_internal or the ranker is called directly), the requested number
\* of wall-clock runs, the samples list, the count of successful runs, the
\* outcomes of the calls of _run_select made so far (the warm-up first), and
\* the list main writes to per_node_top_time.json.
entryVars ==
  <<entry, select_runs, samples, ok, calls, per_node_top_time>>

\* ------------------------------------------------------------------ bounds
\* Largest number of nodes of a plan tree.
MaxNodes == 3
\* Largest shared-read counter a single node carries.
MaxCount == 2
\* Largest explicit top-K count passed to the ranker.
MaxTop == 2
\* Largest number of wall-clock runs requested (EVAL_SELECT_RUNS).
MaxRuns == 3

\* ------------------------------------------------------- program constants
Unit == 10000
DefaultTop == 5
DefaultPareto == 90
TopTimeMax == 20
FilterMax == 140
DefaultWeightsNoTime == <<85, 15>>
DefaultWeights == <<50, 40, 10>>

\* ------------------------------------------------------------ JSON values
Missing == [t |-> "missing", v |-> 0]
Null == [t |-> "null", v |-> 0]
IntVal(n) == [t |-> "int", v |-> n]
Malformed == [t |-> "str", v |-> 0]
\* The empty text "", which an environment variable may hold.
Blank == [t |-> "empty", v |-> 0]

NoFilter == <<>>

\* The empty JSON object {}.
BlankNode ==
  [nt |-> "", rel |-> "", alias |-> "",
   sr |-> Missing, sh |-> Missing, tr |-> Missing, tw |-> Missing,
   rm |-> Missing, cost |-> Missing, prows |-> Missing, arows |-> Missing,
   att |-> Missing,
   filter |-> NoFilter, plans |-> <<>>, plan |-> <<>>, extra |-> FALSE]

\* An object without any key the program reads, such as {"foo": 1} or
\* {"Node Type": ""}.
OpaqueNode == [BlankNode EXCEPT !.extra = TRUE]

\* A sequential scan named by its relation.
ScanRel ==
  [BlankNode EXCEPT !.nt = "Seq Scan", !.rel = "orders", !.alias = "o",
                    !.sr = IntVal(MaxCount), !.sh = IntVal(1), !.tw = Null,
                    !.rm = IntVal(3), !.cost = IntVal(1000), !.prows = IntVal(4),
                    !.arows = Null,
                    !.filter = <<"status = 'open'">>]

\* A filter text of two lines, the first of 2 * FilterMax characters.
RECURSIVE Repeat(_, _)
Repeat(c, n) == IF n = 0 THEN "" ELSE c \o Repeat(c, n - 1)
LongFilter == <<Repeat("x", 2 * FilterMax), "AND y">>

\* A sequential scan of the same relation, named by its alias only.
ScanAlias ==
  [BlankNode EXCEPT !.nt = "Seq Scan", !.alias = "orders",
                    !.sr = IntVal(1), !.sh = Null, !.tr = IntVal(2), !.tw = IntVal(1),
                    !.cost = IntVal(2000), !.prows = IntVal(1), !.arows = IntVal(2),
                    !.filter = LongFilter]

\* A sort: no relation, no alias, temp IO only.
SortNode ==
  [BlankNode EXCEPT !.nt = "Sort", !.sr = Null, !.sh = IntVal(0),
                    !.tr = IntVal(1), !.tw = IntVal(2), !.rm = IntVal(0),
                    !.cost = Null, !.arows = IntVal(3)]

\* A node whose rows-removed counter is not a number.
BadNode ==
  [BlankNode EXCEPT !.nt = "Hash Join", !.sr = IntVal(1), !.rm = Malformed,
                    !.cost = IntVal(1000)]

\* A second sort whose severity, 2*log1p(1) + log1p(3), is the same real
\* number as that of SortNode, 2*log1p(3).
TieNode ==
  [BlankNode EXCEPT !.nt = "Incremental Sort", !.tw = IntVal(1),
                    !.cost = IntVal(3000)]

NodeKinds == {BlankNode, ScanRel, ScanAlias, SortNode, BadNode}

\* Plan trees with exactly n nodes, and forests (child lists) with m nodes.
RECURSIVE TreesN(_), ForestsN(_)
TreesN(n) ==
  {[k EXCEPT !.plans = f] : k \in NodeKinds, f \in ForestsN(n - 1)}
ForestsN(m) ==
  IF m = 0 THEN {<<>>}
  ELSE UNION {{<<t>> \o rest : t \in TreesN(j), rest \in ForestsN(m - j)} :
              j \in 1..m}

\* Plans of one or two nodes in which the two sorts of equal severity meet,
\* alone or next to a scan.
TieKinds == {SortNode, TieNode, ScanRel}
TiePlans ==
  {[k EXCEPT !.plans = f] :
     k \in {SortNode, TieNode},
     f \in {<<>>} \cup {<<c>> : c \in TieKinds}}

PlanTrees ==
  UNION {TreesN(n) : n \in 1..MaxNodes} \cup {OpaqueNode} \cup TiePlans

\* The framings of a plan document: the plan object itself, the object
\* under a top-level "Plan" key, and a top-level array holding either.
Framings == {"bare", "wrapped", "array_bare", "array_wrapped"}
Wrapper(p) == [BlankNode EXCEPT !.plan = <<p>>]
AsDict(o) == [kind |-> "dict", obj |-> o]
AsList(os) == [kind |-> "list", elems |-> os]
Frame(f, p) ==
  CASE f = "bare" -> AsDict(p)
    [] f = "wrapped" -> AsDict(Wrapper(p))
    [] f = "array_bare" -> AsList(<<p>>)
    [] f = "array_wrapped" -> AsList(<<Wrapper(p)>>)

\* --------------------------------------------------------- Python helpers
\* bool(d) of a dict: false only for {}, the object without any key.
DictTruthy(d) ==
  \/ d.extra
  \/ d.nt # "" \/ d.rel # "" \/ d.alias # ""
  \/ \E x \in {d.sr, d.sh, d.tr, d.tw, d.rm, d.cost, d.prows, d.arows,
               d.att} :
       x.t # "missing"
  \/ d.filter # <<>> \/ d.plans # <<>> \/ d.plan # <<>>

\* x or 0 (x from n.get(k, 0) or n[k]): a missing, null or zero value is 0.
OrZero(x) ==
  IF x.t \in {"missing", "null"} \/ (x.t = "int" /\ x.v = 0) THEN IntVal(0) ELSE x

\* int(x) and float(x) raise ValueError on a string that is not a number.
Raises(x) == OrZero(x).t # "int"
Num(x) == OrZero(x).v

\* dict.get(k, d) and dict[k] = v on an accumulator keyed by metric name.
AccGet(a, k, d) == IF k \in DOMAIN a THEN a[k] ELSE d
AccPut(a, k, v) == [x \in DOMAIN a \cup {k} |-> IF x = k THEN v ELSE a[x]]
EmptyAcc == [x \in {} |-> 0]

\* math.log1p(x) in units of 1/Unit, for the arguments the model reaches.
LnTable ==
  <<0, 6931, 10986, 13863, 16094, 17918, 19459, 20794, 21972, 23026, 23979,
    24849, 25649, 26391, 27081, 27726, 28332, 28904, 29444, 29957, 30445,
    30910, 31355, 31781, 32189, 32581, 32958, 33322, 33673, 34012, 34340,
    34657, 34965, 35264, 35553, 35835, 36109, 36376, 36636, 36889, 37136>>
Log1p(x) ==
  CASE x < Len(LnTable) -> LnTable[x + 1]
    [] x = 1000 -> 69088
    [] x = 2000 -> 76014
    [] x = 3000 -> 80067
    [] x = 4000 -> 82943

\* math.log1p(k + 0.5) in units of 1/Unit, for k = 0, 1, ...
LnHalfTable ==
  <<4055, 9163, 12528, 15041, 17047, 18718, 20149, 21401, 22513, 23514,
    24423, 25257, 26027, 26741, 27408, 28034, 28622, 29178, 29704, 30204,
    30681, 31135, 31570, 31987, 32387, 32771, 33142, 33499, 33844, 34177,
    34500, 34812, 35115, 35410, 35695, 35973, 36243, 36507, 36763, 37013>>
\* math.log1p of h half units.
Log1pHalves(h) ==
  IF h % 2 = 0 THEN Log1p(h \div 2) ELSE LnHalfTable[(h - 1) \div 2 + 1]

\* ------------------------------------------------------ input normalization
\* PlanOrSelf without the look under "Plan".
PlanOrSelf_NoUnwrap(o) == o

\* doc.get("Plan") or doc
PlanOrSelf(o) == IF o.plan # <<>> /\ DictTruthy(o.plan[1]) THEN o.plan[1] ELSE o

\* _psql_explain line 51 (doc[0] if isinstance(doc, list) else doc) and
\* evaluate_internal lines 159-160.
NormalizeInternal(d) ==
  LET plan_json == IF d.kind = "list" THEN d.elems[1] ELSE d.obj
  IN PlanOrSelf(plan_json)

\* _summarize_bottlenecks_from_plan lines 189-192.
NormalizeSummary(d) ==
  LET o == IF d.kind = "list" THEN d.elems[1] ELSE d.obj
  IN PlanOrSelf(o)

\* ------------------------------------------------------------ Aggregator
\* The (source key, target key) pairs of _walk, in the order of the loop.
CounterPairs ==
  << <<"sr", "shared_read_total">>, <<"sh", "shared_hit_total">>,
     <<"tr", "temp_read_total">>, <<"tw", "temp_written_total">>,
     <<"rm", "rows_removed_total">> >>

\* if k_src in n: acc[k_dst] = acc.get(k_dst, 0) + int(n[k_src] or 0)
RECURSIVE WalkCounters(_, _, _)
WalkCounters(n, a, i) ==
  IF i > Len(CounterPairs) THEN a
  ELSE LET src == CounterPairs[i][1]
           dst == CounterPairs[i][2]
       IN IF n[src].t = "missing" THEN WalkCounters(n, a, i + 1)
          ELSE WalkCounters(n, AccPut(a, dst, AccGet(a, dst, 0) + Num(n[src])),
                            i + 1)

\* Whether one of the counters _walk reads makes int() raise.
WalkRaises(n) ==
  \E i \in 1..Len(CounterPairs) :
    n[CounterPairs[i][1]].t # "missing" /\ Raises(n[CounterPairs[i][1]])

\* st[nt] = st.get(nt, 0) + 1 when the node has a type.
CountType(st, nt) == IF nt = "" THEN st ELSE AccPut(st, nt, AccGet(st, nt, 0) + 1)

\* 1 / (1 + l) in units of 1/Unit, for a logarithm l in units of 1/Unit.
Inverse(l) == (Unit * Unit) \div (Unit + l)

\* 1 / (1 + log1p(x)) in units of 1/Unit.
SubScore(x) == Inverse(Log1p(x))

\* A combined score of n millionths, and one of n thousands.
Micro(n) == [n |-> n, unit |-> "1e-6"]
Kilo(n) == [n |-> n, unit |-> "1e3"]

\* The value of a weights variable: <<>> when unset, <<w>> when set to the
\* comma-separated numbers w (hundredths).  Unpacking into n names raises
\* unless there are exactly n numbers, and the defaults are used then.
ParseWeights(env, n, default) ==
  IF env # <<>> /\ Len(env[1]) = n THEN env[1] ELSE default

\* evaluate_internal lines 170-179: the two-way blend, the weights used as
\* they are.
CombinedNoTime(a, env) ==
  LET w == ParseWeights(env, 2, DefaultWeightsNoTime)
      rd == AccGet(a, "shared_read_total", 0)
      ct == AccGet(a, "total_cost_total", 0)
  IN Micro(w[1] * SubScore(rd) + w[2] * SubScore(ct))

\* evaluate lines 321-333: the three-way blend with every weight divided by
\* s = max(w_read + w_time + w_cost, 1e-9).  A positive sum of hundredths is
\* above the floor; a sum that is zero or negative is replaced by the floor,
\* which multiplies the blend by 10^9.
CombinedTimed(a, env) ==
  LET w == ParseWeights(env, 3, DefaultWeights)
      rd == AccGet(a, "shared_read_total", 0)
      ct == AccGet(a, "total_cost_total", 0)
      tm == AccGet(a, "select_median_ms", 0)
      s == w[1] + w[2] + w[3]
      mix == w[1] * SubScore(rd) + w[2] * Inverse(Log1pHalves(tm))
             + w[3] * SubScore(ct)
  IN IF s > 0 THEN Micro((100 * mix) \div s) ELSE Kilo(mix)

WeightsNoTimeEnv ==
  {<<>>, << <<100, 0>> >>, << <<200, 200>> >>, << <<0, 0>> >>, << <<50>> >>,
   << <<-100, 50>> >>}
WeightsEnv ==
  {<<>>, << <<100, 100, 100>> >>, << <<0, 0, 0>> >>, << <<100, 0, 0>> >>,
   << <<50, 40>> >>, << <<200, -100, 0>> >>, << <<-100, 50, 0>> >>}

\* evaluate_internal lines 158-164: normalize the document, start the walk.
EvaluateInternal ==
  /\ pc = "idle"
  /\ plan' = NormalizeInternal(doc)
  /\ stack' = <<NormalizeInternal(doc)>>
  /\ acc' = EmptyAcc
  /\ scan_types' = EmptyAcc
  /\ pc' = "agg_walk"
  /\ UNCHANGED entryVars
  /\ UNCHANGED <<planObj, doc, err, pareto, top, local, ranked, keep, cum,
                 topk, results>>

\* Walk with the recursion stopping after the first child.
Walk_FirstChildOnly ==
  /\ pc = "agg_walk"
  /\ stack # <<>>
  /\ LET n == Head(stack)
     IN IF WalkRaises(n)
        THEN /\ pc' = "error"
             /\ err' = "ValueError"
             /\ UNCHANGED <<stack, acc, scan_types>>
        ELSE /\ acc' = WalkCounters(n, acc, 1)
             /\ scan_types' = CountType(scan_types, n.nt)
             /\ stack' = (IF n.plans = <<>> THEN <<>> ELSE <<n.plans[1]>>) \o Tail(stack)
             /\ UNCHANGED <<pc, err>>
  /\ UNCHANGED entryVars
  /\ UNCHANGED <<planObj, doc, plan, pareto, top, local, ranked, keep, cum,
                 topk, results>>

\* One call of _walk: the node on top of the stack, then its children in order.
Walk ==
  /\ pc = "agg_walk"
  /\ stack # <<>>
  /\ LET n == Head(stack)
     IN IF WalkRaises(n)
        THEN /\ pc' = "error"
             /\ err' = "ValueError"
             /\ UNCHANGED <<stack, acc, scan_types>>
        ELSE /\ acc' = WalkCounters(n, acc, 1)
             /\ scan_types' = CountType(scan_types, n.nt)
             /\ stack' = n.plans \o Tail(stack)
             /\ UNCHANGED <<pc, err>>
  /\ UNCHANGED entryVars
  /\ UNCHANGED <<planObj, doc, plan, pareto, top, local, ranked, keep, cum,
                 topk, results>>

\* evaluate_internal lines 165-179: the root's metrics and the two-way blend.
RootMetrics(env) ==
  /\ pc = "agg_walk"
  /\ stack = <<>>
  /\ IF Raises(plan.cost) \/ Raises(plan.prows) \/ Raises(plan.arows)
     THEN /\ pc' = "error"
          /\ err' = "ValueError"
          /\ UNCHANGED acc
     ELSE LET a1 == AccPut(acc, "total_cost_total", Num(plan.cost))
              a2 == AccPut(a1, "plan_rows_root_sum", Num(plan.prows))
              a3 == AccPut(a2, "actual_rows_root_sum", Num(plan.arows))
              a4 == AccPut(a3, "timeouts", 0)
          IN /\ acc' = AccPut(a4, "combined_score", CombinedNoTime(a4, env))
             /\ pc' = "agg_done"
             /\ UNCHANGED err
  /\ UNCHANGED entryVars
  /\ UNCHANGED <<planObj, doc, plan, stack, scan_types, pareto, top, local,
                 ranked, keep, cum, topk, results>>

\* -------------------------------------------------- wall-clock sampling
\* The outcome of one call of _run_select: the elapsed milliseconds, or a
\* RuntimeError carrying psql's error text.
Elapsed(ms) == [ok |-> TRUE, ms |-> ms, text |-> ""]
Failure(text) == [ok |-> FALSE, ms |-> 0, text |-> text]
SampleVals == {2, 21}
ErrorTexts == {"SELECT failed", "canceling statement due to statement timeout"}
SelectOutcomes ==
  {Elapsed(ms) : ms \in SampleVals} \cup {Failure(e) : e \in ErrorTexts}

\* An entry of the samples list: dt, or float("nan").
Measured(ms) == [nan |-> FALSE, ms |-> ms]
NaN == [nan |-> TRUE, ms |-> 0]

\* vals = [x for x in samples if x == x]: NaN is dropped.
Vals(s) ==
  LET kept == SelectSeq(s, LAMBDA x : ~x.nan)
  IN [i \in 1..Len(kept) |-> kept[i].ms]

\* sorted(vals), ascending.
RECURSIVE InsertAsc(_, _)
InsertAsc(s, x) ==
  IF s = <<>> THEN <<x>>
  ELSE IF x < s[1] THEN <<x>> \o s
  ELSE <<s[1]>> \o InsertAsc(Tail(s), x)
RECURSIVE Sorted(_)
Sorted(s) == IF s = <<>> THEN <<>> ELSE InsertAsc(Sorted(SubSeq(s, 1, Len(s) - 1)), s[Len(s)])

\* statistics.median, in half milliseconds: the middle value, or the mean of
\* the two middle values.
Median(v) ==
  LET s == Sorted(v)
      n == Len(s)
  IN IF n % 2 = 1 THEN 2 * s[(n + 1) \div 2]
     ELSE s[n \div 2] + s[n \div 2 + 1]

\* sorted(vals)[max(0, int(len(vals)*0.95)-1)], with Python's 0-based index.
P95(v) ==
  LET i == (Len(v) * 95) \div 100 - 1
  IN Sorted(v)[(IF i < 0 THEN 0 ELSE i) + 1]

\* int(text) and float(text) of a variable that is set raise ValueError
\* unless the text is a number.
EnvRaises(e) == e # <<>> /\ e[1].t # "int"

\* EVAL_SELECT_RUNS, or --select-runs: unset, a count, or (the environment
\* variable only) text that is not a number.
RunsEnv ==
  {<<>>, <<Malformed>>, <<Blank>>} \cup {<<IntVal(k)>> : k \in -1..MaxRuns}

\* evaluate lines 290-293: int(os.environ.get("EVAL_SELECT_RUNS", "0")), and
\* 0 when that raises; main line 343: the option, 0 when it is not given.
SelectRuns(e) == IF e = <<>> \/ e[1].t # "int" THEN 0 ELSE e[1].v

\* evaluate lines 289-294, main line 357: sampling runs only when the
\* requested number of runs is positive.  evaluate reads the number after
\* the optional bottleneck summary, main right after evaluate_internal; an
\* option of main that is not a number never reaches main's body.
StartSampling(e) ==
  /\ \/ entry = "evaluate" /\ pc \in {"attached", "rank_done"}
     \/ entry = "main" /\ pc = "agg_done" /\ ~EnvRaises(e)
  /\ select_runs' = SelectRuns(e)
  /\ pc' = IF SelectRuns(e) > 0 THEN "warmup" ELSE "agg_untimed"
  /\ UNCHANGED <<entry, samples, ok, calls, per_node_top_time>>
  /\ UNCHANGED <<planObj, doc, err, plan, stack, acc, scan_types, pareto, top,
                 local, ranked, keep, cum, topk, results>>

\* evaluate lines 298-304 (main lines 359-366): the warm-up call, whose
\* result is dropped and whose failure is noted in select_error, then the
\* empty samples list and the zero count.
WarmUp(r) ==
  /\ pc = "warmup"
  /\ calls' = Append(calls, r)
  /\ acc' = IF r.ok THEN acc ELSE AccPut(acc, "select_error", r.text)
  /\ samples' = <<>>
  /\ ok' = 0
  /\ pc' = "sampling"
  /\ UNCHANGED <<entry, select_runs, per_node_top_time>>
  /\ UNCHANGED <<planObj, doc, err, plan, stack, scan_types, pareto, top,
                 local, ranked, keep, cum, topk, results>>

\* One iteration of the loop with a failure ending the loop instead of
\* being recorded.
RunSelect_AbortOnFailure(r) ==
  /\ pc = "sampling"
  /\ Len(samples) < select_runs
  /\ calls' = Append(calls, r)
  /\ IF r.ok
     THEN /\ samples' = Append(samples, Measured(r.ms))
          /\ ok' = ok + 1
          /\ UNCHANGED <<acc, pc, err>>
     ELSE /\ acc' = AccPut(acc, "select_error", r.text)
          /\ pc' = "error"
          /\ err' = "RuntimeError"
          /\ UNCHANGED <<samples, ok>>
  /\ UNCHANGED <<entry, select_runs, per_node_top_time>>
  /\ UNCHANGED <<planObj, doc, plan, stack, scan_types, pareto, top,
                 local, ranked, keep, cum, topk, results>>

\* evaluate lines 305-312 (main lines 367-374): one iteration of the loop.
RunSelect(r) ==
  /\ pc = "sampling"
  /\ Len(samples) < select_runs
  /\ calls' = Append(calls, r)
  /\ IF r.ok
     THEN /\ samples' = Append(samples, Measured(r.ms))
          /\ ok' = ok + 1
          /\ UNCHANGED acc
     ELSE /\ samples' = Append(samples, NaN)
          /\ acc' = AccPut(acc, "select_error", r.text)
          /\ UNCHANGED ok
  /\ UNCHANGED <<entry, select_runs, per_node_top_time, pc, err>>
  /\ UNCHANGED <<planObj, doc, plan, stack, scan_types, pareto, top,
                 local, ranked, keep, cum, topk, results>>

\* evaluate lines 313-333 (main lines 375-396): after the loop, the
\* statistics of the successful samples and the three-way blend, written
\* only when a run succeeded.
FinishSampling(env) ==
  /\ pc = "sampling"
  /\ Len(samples) = select_runs
  /\ IF ok > 0
     THEN LET vals == Vals(samples)
              a1 == AccPut(acc, "select_runs", select_runs)
              a2 == AccPut(a1, "select_median_ms", Median(vals))
              a3 == AccPut(a2, "select_p95_ms", P95(vals))
          IN /\ acc' = AccPut(a3, "combined_score", CombinedTimed(a3, env))
             /\ pc' = "agg_timed"
     ELSE /\ pc' = "agg_untimed"
          /\ UNCHANGED acc
  /\ UNCHANGED entryVars
  /\ UNCHANGED <<planObj, doc, err, plan, stack, scan_types, pareto, top,
                 local, ranked, keep, cum, topk, results>>

\* ---------------------------------------------------------------- Ranker
\* An optional parameter: None, or a number (a pareto fraction in
\* hundredths, a top-K count).
NoParam == [t |-> "none", v |-> 0]
NumParam(x) == [t |-> "num", v |-> x]

ParetoVals == {NoParam} \cup {NumParam(x) : x \in {-50, 0, 50, 90, 100, 150}}
TopVals == {NoParam} \cup {NumParam(k) : k \in 0..MaxTop}
\* EVAL_BOTTLENECKS_TOP: unset, a count, or text that is not a number.
TopEnv == {<<>>, <<IntVal(1)>>, <<Malformed>>}

\* walk_node lines 194-196.
GroupKey(node) ==
  <<IF node.nt # "" THEN node.nt ELSE "?",
    IF node.rel # "" THEN node.rel
    ELSE IF node.alias # "" THEN node.alias ELSE "?">>

\* walk_node line 197: the default of acc.setdefault(key, ...).
NewGroup ==
  [shared_read |-> 0, rows_removed |-> 0, temp |-> 0, cost |-> 0,
   filters |-> <<>>, count |-> 0]

\* walk_node line 205: str(filt).replace("\n", " "), the lines joined by
\* spaces.
RECURSIVE JoinLines(_)
JoinLines(f) ==
  IF Len(f) = 1 THEN f[1] ELSE f[1] \o " " \o JoinLines(Tail(f))

\* walk_node line 206: the text cut to its first FilterMax characters, with
\* the ellipsis character appended when it was longer.  The ellipsis is
\* outside the character set of the module: ellipsis = TRUE stands for it.
TruncFilter(f) ==
  LET s == JoinLines(f)
  IN [text |-> IF Len(s) > FilterMax THEN SubSeq(s, 1, FilterMax) ELSE s,
      ellipsis |-> Len(s) > FilterMax]

\* walk_node line 204, `if filt`: an absent and an empty text are false.
FilterTruthy(f) == f # <<>> /\ f # <<"">>

\* walk_node line 207: d["filters"][s] = d["filters"].get(s, 0) + 1, on a
\* dictionary kept as the sequence of its entries in insertion order.
TallyFilter(fs, s) ==
  IF \E i \in 1..Len(fs) : fs[i].s = s
  THEN [i \in 1..Len(fs) |->
          IF fs[i].s = s THEN [fs[i] EXCEPT !.n = @ + 1] ELSE fs[i]]
  ELSE Append(fs, [s |-> s, n |-> 1])

\* walk_node lines 198-207 on the group d of the node.
UpdateGroup(d, node) ==
  [shared_read |-> d.shared_read + Num(node.sr),
   rows_removed |-> d.rows_removed + Num(node.rm),
   temp |-> d.temp + Num(node.tr) + Num(node.tw),
   cost |-> d.cost + Num(node.cost),
   count |-> d.count + 1,
   filters |-> IF FilterTruthy(node.filter)
               THEN TallyFilter(d.filters, TruncFilter(node.filter))
               ELSE d.filters]

\* Whether one of the fields walk_node reads makes int() or float() raise.
WalkNodeRaises(node) ==
  \/ Raises(node.sr) \/ Raises(node.rm) \/ Raises(node.tr) \/ Raises(node.tw)
  \/ Raises(node.cost)

\* AddToGroups with a fresh entry for every node, whatever its key.
AddToGroups_AlwaysAppend(groups, node) ==
  Append(groups, [key |-> GroupKey(node), m |-> UpdateGroup(NewGroup, node)])

\* acc.setdefault(key, ...) followed by the updates, on a dictionary kept as
\* the sequence of its (key, group) entries in insertion order.
AddToGroups(groups, node) ==
  LET key == GroupKey(node)
  IN IF \E i \in 1..Len(groups) : groups[i].key = key
     THEN [i \in 1..Len(groups) |->
             IF groups[i].key = key
             THEN [groups[i] EXCEPT !.m = UpdateGroup(@, node)]
             ELSE groups[i]]
     ELSE Append(groups, [key |-> key, m |-> UpdateGroup(NewGroup, node)])

\* Lines 214-215, in units of 1/20000:
\* 3*log1p(sr) + 2*log1p(tm) + 1.5*log1p(rm) + 1*log1p(cost/1000).
Severity(m) ==
  6 * Log1p(m.shared_read) + 4 * Log1p(m.temp) + 3 * Log1p(m.rows_removed)
  + 2 * Log1p(m.cost \div 1000)

\* A bound on the distance between Severity(m) and the real severity, in
\* units of 1/20000: every entry of LnTable is within half a unit of the
\* logarithm, the coefficients add up to 15, and log1p(0) is exact.
SeverityErr(m) == IF Severity(m) = 0 THEN 0 ELSE 8

\* Lines 212-216: the list of (key, group, severity), in insertion order.
Scored(groups) ==
  [i \in 1..Len(groups) |->
     [key |-> groups[i].key, m |-> groups[i].m,
      severity |-> Severity(groups[i].m)]]

\* The counters the severity is computed from are the same in both groups.
SameCounters(a, b) ==
  /\ a.m.shared_read = b.m.shared_read
  /\ a.m.temp = b.m.temp
  /\ a.m.rows_removed = b.m.rows_removed
  /\ a.m.cost = b.m.cost

\* MustPrecede for a sort without reverse=True: ascending severity.
MustPrecede_Ascending(a, i, b, j) ==
  \/ b.severity - a.severity > SeverityErr(a.m) + SeverityErr(b.m)
  \/ SameCounters(a, b) /\ i < j

\* Line 217, ranked.sort(key=severity, reverse=True): the sort is certain to
\* put item a (i-th of the list) before item b (j-th) when a's severity is
\* larger beyond the rounding, or when the severities are the same number
\* and a comes first in the list (the sort is stable).
MustPrecede(a, i, b, j) ==
  \/ a.severity - b.severity > SeverityErr(a.m) + SeverityErr(b.m)
  \/ SameCounters(a, b) /\ i < j

\* The permutations of a sequence.
RECURSIVE Perms(_)
Perms(s) ==
  IF s = <<>> THEN {<<>>}
  ELSE UNION {{<<s[i]>> \o r :
                 r \in Perms(SubSeq(s, 1, i - 1) \o SubSeq(s, i + 1, Len(s)))} :
              i \in 1..Len(s)}

\* Lines 212-217: the orders the sort can leave the list in.
Rankings(groups) ==
  LET s == Scored(groups)
      n == Len(s)
      orders == {q \in Perms([i \in 1..n |-> i]) :
                   \A k1, k2 \in 1..n :
                     k1 < k2 => ~MustPrecede(s[q[k2]], q[k2], s[q[k1]], q[k1])}
  IN {[k \in 1..n |-> s[q[k]]] : q \in orders}

\* Line 219: sum(sev ...) or 1.0.
RECURSIVE SumSeverity(_)
SumSeverity(s) ==
  IF s = <<>> THEN 0 ELSE s[1].severity + SumSeverity(Tail(s))
TotalSeverity(s) == IF SumSeverity(s) = 0 THEN 2 * Unit ELSE SumSeverity(s)

\* The bound on the error of a sum of severities.
RECURSIVE SumErr(_)
SumErr(s) == IF s = <<>> THEN 0 ELSE SeverityErr(s[1].m) + SumErr(Tail(s))

\* Clamp without the upper bound.
Clamp_NoUpper(p) == IF p < 0 THEN 0 ELSE p

\* Line 223: max(0.0, min(1.0, pareto)), in hundredths.
Clamp(p) == IF p < 0 THEN 0 ELSE IF p > 100 THEN 100 ELSE p

\* ParetoInEffect with a fraction below 0 taken as no fraction.
ParetoInEffect_PositiveOnly(p, r) == p.t = "num" /\ p.v > 0 /\ r # <<>>

\* Line 218: `pareto and ranked`: None and 0.0 are false, [] is false.
ParetoInEffect(p, r) == p.t = "num" /\ p.v # 0 /\ r # <<>>

\* 100 * (cum - fraction * total) in units of 1/20000, and the bound on its
\* error given those of cum and total.  total is cum plus the severities not
\* yet added, computed by the same additions in the same order, so the error
\* of cum enters with the factor 1 - fraction and that of the rest with the
\* factor fraction: a sum followed by zero severities only equals the total.
Margin(c, total, p) == 100 * c - Clamp(p.v) * total
Band(cerr, terr, p) ==
  (100 - Clamp(p.v)) * cerr + Clamp(p.v) * (terr - cerr)

\* Reached with the cumulative sum counted twice.
Reached_HalfWay(c, cerr, total, terr, p) ==
  {b \in BOOLEAN :
     \/ b /\ Margin(2 * c, total, p) >= 0 - Band(2 * cerr, terr, p)
     \/ ~b /\ Clamp(p.v) # 0
           /\ (Margin(2 * c, total, p) < 0
               \/ (Band(2 * cerr, terr, p) > 0
                   /\ Margin(2 * c, total, p) <= Band(2 * cerr, terr, p)))}

\* Reached with a strict comparison.
Reached_Strict(c, cerr, total, terr, p) ==
  {b \in BOOLEAN :
     \/ b /\ (Margin(c, total, p) > 0
              \/ (Band(cerr, terr, p) > 0
                  /\ Margin(c, total, p) >= 0 - Band(cerr, terr, p)))
     \/ ~b /\ (Margin(c, total, p) <= 0
               \/ Margin(c, total, p) <= Band(cerr, terr, p))}

\* Line 223: cum / total >= max(0.0, min(1.0, pareto)), as the set of the
\* outcomes the comparison can have.  A fraction clamped to 0 is reached by
\* any sum; otherwise TRUE is an outcome unless the margin is negative beyond
\* the error, and FALSE is one when the margin is negative or inside it.
Reached(c, cerr, total, terr, p) ==
  {b \in BOOLEAN :
     \/ b /\ Margin(c, total, p) >= 0 - Band(cerr, terr, p)
     \/ ~b /\ Clamp(p.v) # 0
           /\ (Margin(c, total, p) < 0
               \/ (Band(cerr, terr, p) > 0
                   /\ Margin(c, total, p) <= Band(cerr, terr, p)))}

\* Lines 227-231: top as given, else EVAL_BOTTLENECKS_TOP, else DefaultTop.
EffectiveTop(t, env) ==
  IF t.t = "num" THEN t
  ELSE IF env # <<>> /\ ~Raises(env[1]) THEN NumParam(Num(env[1]))
       ELSE NumParam(DefaultTop)

\* Line 232: ranked[:top].
PySlice(s, k) ==
  LET n == IF k >= 0 THEN (IF k < Len(s) THEN k ELSE Len(s))
           ELSE (IF Len(s) + k > 0 THEN Len(s) + k ELSE 0)
  IN SubSeq(s, 1, n)

\* Lines 233-241.
HintFor(nt) ==
  CASE nt = "Seq Scan" ->
         "Add/adjust index; push filters earlier; consider Bitmap/Index Scan"
    [] nt \in {"Bitmap Heap Scan", "Bitmap Index Scan"} ->
         "Ensure selectivity and correct join keys; consider covering index"
    [] nt \in {"Sort", "Incremental Sort"} ->
         "Reduce input rows pre-sort; add index matching ORDER BY; tune work_mem"
    [] nt \in {"Hash Join", "HashAggregate"} ->
         "Reduce build-side size; add index for join; watch work_mem"
    [] nt = "Nested Loop" ->
         "Ensure inner side has index on join key; consider join reorder"
    [] nt = "Merge Join" ->
         "Avoid global sorts: add indexes to supply order or change join"
    [] nt = "WindowAgg" ->
         "Replace with LATERAL/LIMIT 1 or DISTINCT ON; pre-filter partitions"
    [] OTHER ->
         "Pushdown filters; appropriate indexes; reduce intermediate cardinality"

\* Line 251: sorted(filters.items(), key=count, reverse=True)[:2].
InsertByCount(s, item) ==
  LET n == Cardinality({i \in 1..Len(s) : s[i].n >= item.n})
  IN SubSeq(s, 1, n) \o <<item>> \o SubSeq(s, n + 1, Len(s))
RECURSIVE SortByCount(_)
SortByCount(s) ==
  IF s = <<>> THEN <<>>
  ELSE InsertByCount(SortByCount(SubSeq(s, 1, Len(s) - 1)), s[Len(s)])

\* Lines 242-253: one entry of the result; severity rounded to 3 decimals
\* (thousandths), total_cost_k to 1 decimal (tenths of a thousand).
ResultEntry(item) ==
  [node_type |-> item.key[1], relation |-> item.key[2],
   severity |-> (item.severity + 10) \div 20,
   shared_read |-> item.m.shared_read,
   temp_io |-> item.m.temp,
   rows_removed |-> item.m.rows_removed,
   total_cost_k |-> item.m.cost \div 100,
   hint |-> HintFor(item.key[1]),
   filters_sample |-> PySlice(SortByCount(item.m.filters), 2)]

\* _summarize_bottlenecks_from_plan lines 189-192 and 210-211: normalize the
\* document and start the grouping walk.
SummarizeBottlenecks ==
  /\ pc = "idle"
  /\ plan' = NormalizeSummary(doc)
  /\ stack' = <<NormalizeSummary(doc)>>
  /\ local' = <<>>
  /\ pc' = "rank_walk"
  /\ UNCHANGED entryVars
  /\ UNCHANGED <<planObj, doc, err, acc, scan_types, pareto, top, ranked,
                 keep, cum, topk, results>>

\* One call of walk_node: the node on top of the stack, then its children.
WalkNode ==
  /\ pc = "rank_walk"
  /\ stack # <<>>
  /\ LET node == Head(stack)
     IN IF WalkNodeRaises(node)
        THEN /\ pc' = "error"
             /\ err' = "ValueError"
             /\ UNCHANGED <<stack, local>>
        ELSE /\ local' = AddToGroups(local, node)
             /\ stack' = node.plans \o Tail(stack)
             /\ UNCHANGED <<pc, err>>
  /\ UNCHANGED entryVars
  /\ UNCHANGED <<planObj, doc, plan, acc, scan_types, pareto, top, ranked,
                 keep, cum, topk, results>>

\* Lines 212-217: the severities and the descending sort.
RankGroups ==
  /\ pc = "rank_walk"
  /\ stack = <<>>
  /\ ranked' \in Rankings(local)
  /\ pc' = "select"
  /\ UNCHANGED entryVars
  /\ UNCHANGED <<planObj, doc, err, plan, stack, acc, scan_types, pareto, top,
                 local, keep, cum, topk, results>>

\* Lines 218-220 and 226-232: the choice between the pareto cutoff and the
\* top-K count.  The parameters pareto and top of the call, and the
\* environment, are read here for the first time.
Select(p, t, env) ==
  /\ pc = "select"
  /\ pareto' = p
  /\ IF ParetoInEffect(p, ranked)
     THEN /\ top' = t
          /\ keep' = <<>>
          /\ cum' = 0
          /\ pc' = "pareto_loop"
          /\ UNCHANGED topk
     ELSE /\ top' = EffectiveTop(t, env)
          /\ topk' = PySlice(ranked, EffectiveTop(t, env).v)
          /\ pc' = "selected"
          /\ UNCHANGED <<keep, cum>>
  /\ UNCHANGED entryVars
  /\ UNCHANGED <<planObj, doc, err, plan, stack, acc, scan_types, local,
                 ranked, results>>

\* Lines 221-225: one iteration of the pareto loop.
ParetoStep ==
  /\ pc = "pareto_loop"
  /\ LET item == ranked[Len(keep) + 1]
         c == cum + item.severity
         kept == Append(keep, item)
     IN /\ keep' = kept
        /\ cum' = c
        /\ \E b \in Reached(c, SumErr(kept), TotalSeverity(ranked),
                             SumErr(ranked), pareto) :
             IF b \/ Len(kept) = Len(ranked)
             THEN /\ topk' = kept
                  /\ pc' = "selected"
             ELSE UNCHANGED <<topk, pc>>
  /\ UNCHANGED entryVars
  /\ UNCHANGED <<planObj, doc, err, plan, stack, acc, scan_types, pareto, top,
                 local, ranked, results>>

\* Lines 242-253 and 262: the result entries of the selected groups (the
\* "all" list of the returned dictionary).
BuildResults ==
  /\ pc = "selected"
  /\ results' = [i \in 1..Len(topk) |-> ResultEntry(topk[i])]
  /\ pc' = "rank_done"
  /\ UNCHANGED entryVars
  /\ UNCHANGED <<planObj, doc, err, plan, stack, acc, scan_types, pareto, top,
                 local, ranked, keep, cum, topk>>

\* ------------------------------------------------- public entry points
\* A numeric environment variable: unset, a number, the empty text, or text
\* that is not a number.  EVAL_BOTTLENECKS_PARETO is in hundredths.
TimeoutEnv == {<<>>, <<IntVal(0)>>, <<IntVal(30)>>, <<Blank>>, <<Malformed>>}
ParetoEnv == {<<>>, <<IntVal(0)>>, <<Malformed>>}
TopNumEnv == {<<>>, <<IntVal(1)>>, <<Blank>>}
\* EVAL_ATTACH_BOTTLENECKS: unset, or a text.
AttachEnv == {<<>>, <<"0">>, <<"1">>, <<"true">>, <<"True">>, <<"yes">>}

\* evaluate line 277: os.environ.get("EVAL_ATTACH_BOTTLENECKS", "0") in
\* ("1", "true", "True").
EmitBn(e) == e # <<>> /\ e[1] \in {"1", "true", "True"}

\* The content of plan.json, written by evaluate_internal at line 161: the
\* root node it selected, under the key "Plan".
PlanFile == AsDict(Wrapper(NormalizeInternal(doc)))

\* evaluate lines 270-274, up to the call of evaluate_internal.  Line 273
\* converts EVAL_TIMEOUT when it is set and not empty.
Evaluate(timeout_env) ==
  /\ pc = "idle"
  /\ entry = ""
  /\ entry' = "evaluate"
  /\ IF timeout_env # <<>> /\ timeout_env[1].t = "str"
     THEN /\ pc' = "error"
          /\ err' = "ValueError"
     ELSE UNCHANGED <<pc, err>>
  /\ UNCHANGED <<select_runs, samples, ok, calls, per_node_top_time>>
  /\ UNCHANGED <<planObj, doc, plan, stack, acc, scan_types, pareto, top,
                 local, ranked, keep, cum, topk, results>>

\* main lines 339-354, up to the call of evaluate_internal.  The defaults
\* of --timeout, --bottlenecks-pareto and --bottlenecks-top are converted
\* from the environment when the parser is built (lines 342, 346, 347),
\* whether or not the options are given; args.bottlenecks_pareto and
\* args.bottlenecks_top are the options given (arg_pareto, arg_top), else
\* those defaults.
Main(timeout_env, pareto_env, top_env, arg_pareto, arg_top) ==
  /\ pc = "idle"
  /\ entry = ""
  /\ entry' = "main"
  /\ IF EnvRaises(timeout_env) \/ EnvRaises(pareto_env) \/ EnvRaises(top_env)
     THEN /\ pc' = "error"
          /\ err' = "ValueError"
          /\ UNCHANGED <<pareto, top>>
     ELSE /\ pareto' = NumParam(IF arg_pareto # <<>> THEN arg_pareto[1]
                                ELSE IF pareto_env # <<>> THEN pareto_env[1].v
                                ELSE DefaultPareto)
          /\ top' = NumParam(IF arg_top # <<>> THEN arg_top[1]
                             ELSE IF top_env # <<>> THEN top_env[1].v
                             ELSE DefaultTop)
          /\ UNCHANGED <<pc, err>>
  /\ UNCHANGED <<select_runs, samples, ok, calls, per_node_top_time>>
  /\ UNCHANGED <<planObj, doc, plan, stack, acc, scan_types, local, ranked,
                 keep, cum, topk, results>>

\* evaluate lines 276-284: the optional bottleneck summary.  The arguments
\* of the call are converted from the environment outside any try, pareto
\* first; then _summarize_bottlenecks_from_plan starts on plan.json (lines
\* 189-192, 210-211).  Its result goes to the artifacts (lines 285-288).
AttachBottlenecks(attach_env, pareto_env, top_env) ==
  /\ entry = "evaluate"
  /\ pc = "agg_done"
  /\ IF ~EmitBn(attach_env)
     THEN /\ pc' = "attached"
          /\ UNCHANGED <<err, pareto, top, plan, stack, local>>
     ELSE IF EnvRaises(pareto_env) \/ EnvRaises(top_env)
     THEN /\ pc' = "error"
          /\ err' = "ValueError"
          /\ UNCHANGED <<pareto, top, plan, stack, local>>
     ELSE /\ pareto' = NumParam(IF pareto_env = <<>> THEN DefaultPareto
                                ELSE pareto_env[1].v)
          /\ top' = IF top_env = <<>> THEN NoParam ELSE NumParam(top_env[1].v)
          /\ plan' = NormalizeSummary(PlanFile)
          /\ stack' = <<NormalizeSummary(PlanFile)>>
          /\ local' = <<>>
          /\ pc' = "rank_walk"
          /\ UNCHANGED err
  /\ UNCHANGED entryVars
  /\ UNCHANGED <<planObj, doc, acc, scan_types, ranked, keep, cum, topk,
                 results>>

\* Plans returned by the TIMING ON explain: a scan taking 1.5 ms over a sort
\* taking 4 ms and a second scan taking 1.5 ms, and a scan whose time is not
\* a number.
TimedTree ==
  [ScanRel EXCEPT !.att = IntVal(1500),
                  !.plans = <<[SortNode EXCEPT !.att = IntVal(4000)],
                              [ScanAlias EXCEPT !.att = IntVal(1500)]>>]
BadTimed == [ScanRel EXCEPT !.att = Malformed]
TimedPlans == {TimedTree, BadTimed}
TimingVals == {0, 12}

\* The outcome of _psql_explain_timing: a RuntimeError when psql fails (line
\* 84), else the plan document after ms milliseconds.
TimingFailure == [ok |-> FALSE, ms |-> 0, doc |-> AsDict(BlankNode)]
TimingPlan(ms, p) == [ok |-> TRUE, ms |-> ms, doc |-> AsDict(Wrapper(p))]
TimingOutcomes ==
  {TimingFailure} \cup {TimingPlan(ms, p) : ms \in TimingVals, p \in TimedPlans}

\* _collect_nodes_with_time lines 114-122: the item of one node.
TimeItem(n) ==
  [node_type |-> n.nt,
   relation |-> IF n.rel # "" THEN n.rel ELSE n.alias,
   actual_total_time |-> Num(n.att),
   actual_rows |-> Num(n.arows),
   plan_rows |-> Num(n.prows),
   shared_read |-> Num(n.sr),
   temp_read |-> Num(n.tr) + Num(n.tw)]

\* _collect_nodes_with_time: the items of a tree, the node before its
\* children, and whether a conversion of lines 117-121 raises.
RECURSIVE CollectNodes(_), CollectForest(_), CollectRaises(_)
CollectNodes(n) == <<TimeItem(n)>> \o CollectForest(n.plans)
CollectForest(f) ==
  IF f = <<>> THEN <<>> ELSE CollectNodes(f[1]) \o CollectForest(Tail(f))
CollectRaises(n) ==
  \/ \E x \in {n.att, n.arows, n.prows, n.sr, n.tr, n.tw} : Raises(x)
  \/ \E i \in 1..Len(n.plans) : CollectRaises(n.plans[i])

\* Line 409: the stable sort by actual_total_time, longest first.
InsertByTime(s, item) ==
  LET n == Cardinality({i \in 1..Len(s) :
                          s[i].actual_total_time >= item.actual_total_time})
  IN SubSeq(s, 1, n) \o <<item>> \o SubSeq(s, n + 1, Len(s))
RECURSIVE SortByTime(_)
SortByTime(s) ==
  IF s = <<>> THEN <<>>
  ELSE InsertByTime(SortByTime(SubSeq(s, 1, Len(s) - 1)), s[Len(s)])

\* main lines 399-414: with --timing, the TIMING ON plan is fetched, its
\* nodes are listed by time and the first TopTimeMax of them written, and
\* the elapsed time and the flag are put in the metrics.
CollectTiming(timing, o) ==
  /\ entry = "main"
  /\ pc \in {"agg_timed", "agg_untimed"}
  /\ IF ~timing
     THEN /\ pc' = "timing_done"
          /\ UNCHANGED <<err, plan, acc, per_node_top_time>>
     ELSE IF ~o.ok
     THEN /\ pc' = "error"
          /\ err' = "RuntimeError"
          /\ UNCHANGED <<plan, acc, per_node_top_time>>
     ELSE IF CollectRaises(NormalizeInternal(o.doc))
     THEN /\ plan' = NormalizeInternal(o.doc)
          /\ pc' = "error"
          /\ err' = "ValueError"
          /\ UNCHANGED <<acc, per_node_top_time>>
     ELSE /\ plan' = NormalizeInternal(o.doc)
          /\ per_node_top_time' =
               PySlice(SortByTime(CollectNodes(NormalizeInternal(o.doc))),
                       TopTimeMax)
          /\ acc' = AccPut(AccPut(acc, "timing_plan_elapsed_ms", o.ms),
                           "timing_available", TRUE)
          /\ pc' = "timing_done"
          /\ UNCHANGED err
  /\ UNCHANGED <<entry, select_runs, samples, ok, calls>>
  /\ UNCHANGED <<planObj, doc, stack, scan_types, pareto, top, local, ranked,
                 keep, cum, topk, results>>

\* main lines 416-417: with --attach-bottlenecks,
\* _summarize_bottlenecks_from_plan starts on plan.json with
\* args.bottlenecks_pareto and args.bottlenecks_top; its result goes to the
\* artifacts (line 418).  Lines 420-421 print the result and return.
MainAttachBottlenecks(attach) ==
  /\ entry = "main"
  /\ pc = "timing_done"
  /\ IF attach
     THEN /\ plan' = NormalizeSummary(PlanFile)
          /\ stack' = <<NormalizeSummary(PlanFile)>>
          /\ local' = <<>>
          /\ pc' = "rank_walk"
     ELSE /\ pc' = "main_done"
          /\ UNCHANGED <<plan, stack, local>>
  /\ UNCHANGED entryVars
  /\ UNCHANGED <<planObj, doc, err, acc, scan_types, pareto, top, ranked,
                 keep, cum, topk, results>>

Init ==
  /\ planObj \in PlanTrees
  /\ \E f \in Framings : doc = Frame(f, planObj)
  /\ pc = "idle"
  /\ err = ""
  /\ plan = BlankNode
  /\ stack = <<>>
  /\ acc = EmptyAcc
  /\ scan_types = EmptyAcc
  /\ pareto = NoParam
  /\ top = NoParam
  /\ local = <<>>
  /\ ranked = <<>>
  /\ keep = <<>>
  /\ cum = 0
  /\ topk = <<>>
  /\ results = <<>>
  /\ entry = ""
  /\ select_runs = 0
  /\ samples = <<>>
  /\ ok = 0
  /\ calls = <<>>
  /\ per_node_top_time = <<>>

Next ==
  \/ EvaluateInternal
  \/ Walk
  \/ \E env \in WeightsNoTimeEnv : RootMetrics(env)
  \/ SummarizeBottlenecks
  \/ WalkNode
  \/ RankGroups
  \/ \E p \in ParetoVals, t \in TopVals, env \in TopEnv : Select(p, t, env)
  \/ ParetoStep
  \/ BuildResults

Spec == Init /\ [][Next]_vars

\* The public entry points evaluate and main, for the plan documents psql
\* returns (an array holding the wrapped plan) of one node.  The ranker is
\* called with the arguments the entry point gave it, and an unset top means
\* an unset EVAL_BOTTLENECKS_TOP.
SamplingPlans == {BlankNode, ScanRel}
ArgPareto == {<<>>}
ArgTop == {<<>>, <<1>>}
\* EVAL_CS_WEIGHTS_NO_TIME for the entry points: unset, or a negative sum.
EntryWeightsNoTimeEnv == {<<>>, << <<-100, 50>> >>}

SamplingInit ==
  /\ Init
  /\ planObj \in SamplingPlans
  /\ doc = Frame("array_wrapped", planObj)

SamplingNext ==
  \/ \E t \in TimeoutEnv : Evaluate(t)
  \/ \E t \in TimeoutEnv, p \in {<<>>, <<Malformed>>}, k \in {<<>>, <<Blank>>},
        ap \in ArgPareto, ak \in ArgTop : Main(t, p, k, ap, ak)
  \/ EvaluateInternal
  \/ Walk
  \/ \E env \in EntryWeightsNoTimeEnv : RootMetrics(env)
  \/ \E a \in AttachEnv, p \in ParetoEnv, k \in TopNumEnv :
       AttachBottlenecks(a, p, k)
  \/ \E e \in RunsEnv : StartSampling(e)
  \/ \E r \in SelectOutcomes : WarmUp(r)
  \/ \E r \in SelectOutcomes : RunSelect(r)
  \/ \E env \in WeightsEnv : FinishSampling(env)
  \/ \E timing \in BOOLEAN, o \in TimingOutcomes : CollectTiming(timing, o)
  \/ \E attach \in BOOLEAN : MainAttachBottlenecks(attach)
  \/ WalkNode
  \/ RankGroups
  \/ Select(pareto, top, <<>>)
  \/ ParetoStep
  \/ BuildResults

SamplingSpec == SamplingInit /\ [][SamplingNext]_vars

\* ------------------------------------------------ reference definitions
\* The value a numeric field stands for: its integer, and zero when the key
\* is missing or null.
RefValue(x) == IF x.t = "int" THEN x.v ELSE 0

\* Every node of a tree, children before their parent.
RECURSIVE NodesOf(_), NodesOfForest(_)
NodesOf(t) == NodesOfForest(t.plans) \o <<t>>
NodesOfForest(f) ==
  IF f = <<>> THEN <<>> ELSE NodesOfForest(Tail(f)) \o NodesOf(f[1])

\* The sum of one field over a sequence of nodes.
RECURSIVE RefSum(_, _)
RefSum(ns, field) ==
  IF ns = <<>> THEN 0 ELSE RefValue(ns[1][field]) + RefSum(Tail(ns), field)

\* The trees that differ from t only in the order of children, at any depth.
RECURSIVE Rearrangements(_), ForestChoices(_)
Rearrangements(t) ==
  {[t EXCEPT !.plans = g] :
     g \in UNION {Perms(f) : f \in ForestChoices(t.plans)}}
ForestChoices(f) ==
  IF f = <<>> THEN {<<>>}
  ELSE {<<h>> \o r : h \in Rearrangements(f[1]), r \in ForestChoices(Tail(f))}

\* The five node fields and the totals they are summed into.
RefTotals ==
  {<<"sr", "shared_read_total">>, <<"sh", "shared_hit_total">>,
   <<"tr", "temp_read_total">>, <<"tw", "temp_written_total">>,
   <<"rm", "rows_removed_total">>}

\* The totals a hold the sums of the five fields over the nodes of tree.
TotalsMatch(a, tree) ==
  \A c \in RefTotals : AccGet(a, c[2], 0) = RefSum(NodesOf(tree), c[1])

\* The (operator kind, relation-or-alias) identity of a node, "?" standing in
\* for an absent part.
RefKey(n) ==
  <<IF n.nt = "" THEN "?" ELSE n.nt,
    CASE n.rel # "" -> n.rel
      [] n.rel = "" /\ n.alias # "" -> n.alias
      [] OTHER -> "?">>

RECURSIVE NodesWithKey(_, _)
NodesWithKey(ns, key) ==
  IF ns = <<>> THEN <<>>
  ELSE (IF RefKey(ns[1]) = key THEN <<ns[1]>> ELSE <<>>)
       \o NodesWithKey(Tail(ns), key)

\* The groups hold one entry per key of the tree, each with the sums over the
\* nodes of that key.
GroupsMatch(groups, tree) ==
  LET ns == NodesOf(tree)
      keys == {RefKey(ns[i]) : i \in 1..Len(ns)}
  IN /\ Len(groups) = Cardinality(keys)
     /\ {groups[i].key : i \in 1..Len(groups)} = keys
     /\ \A i, j \in 1..Len(groups) : groups[i].key = groups[j].key => i = j
     /\ \A i \in 1..Len(groups) :
          LET mine == NodesWithKey(ns, groups[i].key)
              m == groups[i].m
          IN /\ m.shared_read = RefSum(mine, "sr")
             /\ m.temp = RefSum(mine, "tr") + RefSum(mine, "tw")
             /\ m.rows_removed = RefSum(mine, "rm")
             /\ m.cost = RefSum(mine, "cost")
             /\ m.count = Len(mine)

\* The sum of the severities of a sequence of groups, and the denominator of
\* the severity share: the sum over all groups, 1.0 when that sum is zero.
RECURSIVE SevSum(_)
SevSum(s) == IF s = <<>> THEN 0 ELSE SevSum(Tail(s)) + s[1].severity
ShareDenominator(all) == IF SevSum(all) = 0 THEN 2 * Unit ELSE SevSum(all)

\* The room the rounding of the logarithms leaves around a sum of
\* severities: 8 units of 1/20000 for every severity that is not zero.
SevSlack(s) == 8 * Cardinality({i \in 1..Len(s) : s[i].severity # 0})

\* 100 * (share of s among all - p hundredths) * denominator, and the room
\* around it.
ShareMargin(s, all, p) == 100 * SevSum(s) - p * ShareDenominator(all)
ShareSlack(s, all, p) ==
  (100 - p) * SevSlack(s) + p * (SevSlack(all) - SevSlack(s))

\* The share of the groups s among all is at least p hundredths, as far as
\* the rounding can tell.
ShareAtLeast(s, all, p) == ShareMargin(s, all, p) >= 0 - ShareSlack(s, all, p)

\* The share of the groups s among all is below p hundredths, as far as the
\* rounding can tell; no share is below 0.
ShareBelow(s, all, p) ==
  /\ p > 0
  /\ \/ ShareMargin(s, all, p) < 0
     \/ ShareSlack(s, all, p) > 0 /\ ShareMargin(s, all, p) <= ShareSlack(s, all, p)

IsPrefix(s, all) == Len(s) <= Len(all) /\ s = SubSeq(all, 1, Len(s))

\* No group comes after a group of smaller severity, as far as the rounding
\* can tell.
Descending(s) ==
  \A i, j \in 1..Len(s) :
    i < j => s[i].severity + SevSlack(<<s[i], s[j]>>) >= s[j].severity

\* s is a pareto selection from all for p hundredths (p taken into 0..100):
\* a non-empty prefix whose shorter non-empty prefixes are all below p, and
\* which reaches p unless it is all of the groups.
IsParetoPrefix(s, all, p) ==
  LET q == IF p < 0 THEN 0 ELSE IF p > 100 THEN 100 ELSE p
  IN IF all = <<>> THEN s = <<>>
     ELSE /\ s # <<>>
          /\ IsPrefix(s, all)
          /\ \A n \in 1..Len(s) - 1 : ShareBelow(SubSeq(all, 1, n), all, q)
          /\ s = all \/ ShareAtLeast(s, all, q)

WalkedAgg == (pc = "agg_walk" /\ stack = <<>>) \/ pc \in {"agg_done", "agg_timed"}
WalkedRank ==
  (pc = "rank_walk" /\ stack = <<>>)
  \/ pc \in {"select", "pareto_loop", "selected", "rank_done"}
Selected == pc \in {"selected", "rank_done"}

\* --------------------------------------------------------------- claims
\* C1: after the aggregator's walk, each of the five totals equals the sum of
\* its node field over every node of the tree, a missing or null field
\* counting as zero, whatever the order of the children.
C1_TotalsAreSums ==
  WalkedAgg => \A t \in Rearrangements(plan) : TotalsMatch(acc, t)

\* A walk over a root with two different children, one field null in one
\* node and missing in another, has finished with a positive total.
C1_Witness ==
  /\ pc = "agg_done"
  /\ Len(plan.plans) = 2
  /\ plan.plans[1] # plan.plans[2]
  /\ plan.plans[1].tw.t = "null"
  /\ plan.plans[2].tw.t = "missing"
  /\ plan.tw.t = "int"
  /\ AccGet(acc, "temp_written_total", 0) > 0
  /\ AccGet(acc, "shared_read_total", 0) > MaxCount

\* C2: the grouping walk yields exactly one group per distinct key of the
\* tree, with the sums of shared_read, temp, rows_removed, cost and count
\* over the nodes of that key; no key has two entries.
C2_OneGroupPerKey == WalkedRank => GroupsMatch(local, plan)

\* Two scans of the same relation, one named by relation and one by alias,
\* were merged into one group beside a group with a placeholder relation.
C2_Witness ==
  /\ pc = "select"
  /\ Len(NodesOf(plan)) = 3
  /\ Len(local) = 2
  /\ \E i \in 1..2 : local[i].key = <<"Seq Scan", "orders">> /\ local[i].m.count = 2
                     /\ local[i].m.cost = 3000
  /\ \E i \in 1..2 : local[i].key[2] = "?"

\* C3 as stated: with at least one group and a fraction p in [0, 1], the
\* returned groups have a severity share of at least p.
C3_ShareReachesFraction ==
  (Selected /\ pareto.t = "num" /\ pareto.v \in 0..100 /\ ranked # <<>>)
    => ShareAtLeast(topk, ranked, pareto.v)

\* C3 amended: the share is at least p whenever the total severity is
\* positive; when it is zero and p > 0, every group is returned.
C3_ShareReachesFractionIfPositive ==
  (Selected /\ pareto.t = "num" /\ pareto.v \in 0..100 /\ ranked # <<>>)
    => /\ SevSum(ranked) > 0 => ShareAtLeast(topk, ranked, pareto.v)
       /\ (SevSum(ranked) = 0 /\ pareto.v > 0) => topk = ranked

\* A cutoff of one half kept a proper prefix of several groups of positive
\* total severity.
C3_Witness ==
  /\ pc = "rank_done"
  /\ pareto = NumParam(50)
  /\ Len(ranked) >= 2
  /\ Len(topk) < Len(ranked)
  /\ SevSum(ranked) > 0
  /\ ShareAtLeast(topk, ranked, 50)

\* The result is a non-empty prefix of the groups in descending severity
\* order and no shorter prefix has a share of at least p.
MinimalPrefix(p) ==
  /\ Descending(ranked)
  /\ topk # <<>>
  /\ IsPrefix(topk, ranked)
  /\ \A n \in 0..Len(topk) - 1 : ShareBelow(SubSeq(topk, 1, n), ranked, p)

\* C4 as stated: for a fraction p in [0, 1] the result is the shortest prefix
\* in descending severity order that reaches p.
C4_ShortestPrefix ==
  (Selected /\ pareto.t = "num" /\ pareto.v \in 0..100 /\ ranked # <<>>
     /\ topk # <<>>)
    => MinimalPrefix(pareto.v)

\* C4 amended: for a fraction p with 0 < p <= 1 the result is a non-empty
\* prefix in descending severity order, no shorter prefix reaches p, and the
\* result reaches p when the total severity is positive.
C4_ShortestPrefixIfNonzero ==
  (Selected /\ pareto.t = "num" /\ pareto.v \in 1..100 /\ ranked # <<>>)
    => /\ MinimalPrefix(pareto.v)
       /\ SevSum(ranked) > 0 => ShareAtLeast(topk, ranked, pareto.v)

\* A cutoff of nine tenths needed two of three groups: one was not enough.
C4_Witness ==
  /\ pc = "rank_done"
  /\ pareto = NumParam(90)
  /\ Len(ranked) = 3
  /\ Len(topk) = 2
  /\ ShareBelow(SubSeq(ranked, 1, 1), ranked, 90)
  /\ ~ShareAtLeast(SubSeq(ranked, 1, 1), ranked, 90)

\* C5 as stated: with a non-null fraction (0 included) and a top-K count, the
\* result is the pareto selection, whatever the count.
C5_ParetoPrecedence ==
  (Selected /\ pareto.t = "num") => IsParetoPrefix(topk, ranked, pareto.v)

\* C5 amended: with a non-null fraction other than 0, the result is the
\* pareto selection, whatever the top-K count.
C5_ParetoPrecedenceIfNonzero ==
  (Selected /\ pareto.t = "num" /\ pareto.v # 0)
    => IsParetoPrefix(topk, ranked, pareto.v)

\* A call with fraction one half and top-K count 0 returned groups.
C5_Witness ==
  /\ pc = "rank_done"
  /\ pareto = NumParam(50)
  /\ top = NumParam(0)
  /\ Len(ranked) >= 2
  /\ topk # <<>>
  /\ Len(results) = Len(topk)

\* C6 as stated: a fraction below 0 returns what fraction 0 returns (the
\* top-K slice), a fraction above 1 what fraction 1 returns, with no error.
C6_ClampedLikeBounds ==
  (Selected /\ pareto.t = "num")
    => /\ pareto.v < 0 =>
            \E env \in TopEnv : topk = PySlice(ranked, EffectiveTop(top, env).v)
       /\ pareto.v > 100 => IsParetoPrefix(topk, ranked, 100)

\* C6 amended: a fraction below 0 returns the single group of highest
\* severity, a fraction above 1 what fraction 1 returns; neither is an error.
C6_ClampedInsideLoop ==
  /\ (Selected /\ pareto.t = "num")
       => /\ pareto.v < 0 => topk = SubSeq(ranked, 1, 1)
          /\ pareto.v > 100 => IsParetoPrefix(topk, ranked, 100)
  /\ (pareto.t = "num" /\ (pareto.v < 0 \/ pareto.v > 100)) => pc # "error"

\* A fraction of 1.5 returned fewer groups than there are: the trailing
\* groups of zero severity were left out, as with fraction 1.
C6_Witness ==
  /\ pc = "rank_done"
  /\ pareto = NumParam(150)
  /\ Len(topk) < Len(ranked)
  /\ Len(topk) >= 1

\* C7: in top-K selection, K = 0 returns nothing, and K at or above the
\* number of groups returns every group once, in non-increasing severity.
C7_TopK ==
  (Selected /\ (pareto.t = "none" \/ pareto.v = 0 \/ ranked = <<>>))
    => /\ top.t = "num"
       /\ top.v = 0 => topk = <<>>
       /\ top.v >= Len(ranked) =>
            /\ Len(topk) = Len(local)
            /\ {topk[i].key : i \in 1..Len(topk)}
                 = {RefKey(NodesOf(plan)[i]) : i \in 1..Len(NodesOf(plan))}
            /\ \A i, j \in 1..Len(topk) : topk[i].key = topk[j].key => i = j
            /\ Descending(topk)

\* A top-K call with K equal to the number of groups returned both groups,
\* the one that was found second first.
C7_Witness ==
  /\ pc = "rank_done"
  /\ pareto.t = "none"
  /\ top = NumParam(2)
  /\ Len(local) = 2
  /\ Len(topk) = 2
  /\ topk[1].key = local[2].key
  /\ topk[1].severity > topk[2].severity

\* C8: a numeric field that is missing, null or not a number counts as zero
\* in both walks, and no walk ends in an error.
C8_NumericFieldsNeverFatal ==
  /\ pc # "error"
  /\ WalkedAgg => TotalsMatch(acc, plan)
  /\ WalkedRank => GroupsMatch(local, plan)

\* C9: the combined score, two-way or three-way, lies in (0, 1] for every
\* weight setting, and is 1.0 only when the shared-read total, the cost total
\* and (when used) the median time are all zero.
C9_ScoreInUnitInterval ==
  pc \in {"agg_done", "agg_timed"}
    => LET score == acc["combined_score"]
       IN /\ score.unit = "1e-6"
          /\ score.n > 0
          /\ score.n <= 100 * Unit
          /\ score.n = 100 * Unit =>
               /\ AccGet(acc, "shared_read_total", 0) = 0
               /\ acc["total_cost_total"] = 0
               /\ pc = "agg_timed" => acc["select_median_ms"] = 0

\* A plan object: an object holding at least one PlanNode attribute.  The
\* objects without any recognizable plan structure, {} and objects such as
\* {"foo": 1}, are the documents of C11.
IsPlanObject(p) == p \notin {BlankNode, OpaqueNode}

\* C10: for every plan object P, every framing of P (bare, wrapped under
\* "Plan", or an array whose first element is either) selects P itself as
\* the root, and the aggregator's totals and root metrics and the ranker's
\* groups are those of P in every framing.
C10_SameRootForPlanObjects ==
  (IsPlanObject(planObj) /\ pc # "idle")
    => /\ plan = planObj
       /\ WalkedAgg => TotalsMatch(acc, planObj)
       /\ pc \in {"agg_done", "agg_timed"} =>
            /\ acc["total_cost_total"] = RefValue(planObj.cost)
            /\ acc["plan_rows_root_sum"] = RefValue(planObj.prows)
            /\ acc["actual_rows_root_sum"] = RefValue(planObj.arows)
       /\ WalkedRank => GroupsMatch(local, planObj)

\* A plan with children, wrapped under "Plan" inside an array, was ranked
\* from its own root.
C10_Witness ==
  /\ pc = "rank_done"
  /\ IsPlanObject(planObj)
  /\ doc = AsList(<<Wrapper(planObj)>>)
  /\ plan = planObj
  /\ planObj.plans # <<>>
  /\ results # <<>>

\* C11: a document whose root has no recognizable plan structure (the object
\* {}, or an object such as {"foo": 1}, in any framing: no plan to unwrap, no
\* node attribute, no children) is
\* a fatal input error: evaluate_internal returns no metrics and
\* _summarize_bottlenecks_from_plan returns no ranked result for it.
C11_UnrecognizedRootIsFatal ==
  planObj \in {BlankNode, OpaqueNode}
    => pc \notin {"agg_done", "agg_timed", "rank_done"}

\* ------------------------------------------- reference: the sampling loop
\* The outcomes of the runs made so far, the warm-up (the first call) aside.
RunsMade == IF calls = <<>> THEN <<>> ELSE Tail(calls)

\* The milliseconds of the successful runs, in run order.
SuccessfulMs ==
  LET good == SelectSeq(RunsMade, LAMBDA r : r.ok)
  IN [i \in 1..Len(good) |-> good[i].ms]

\* The ascending rearrangement of a sequence of numbers.
RefAscending(v) ==
  CHOOSE q \in Perms(v) : \A i \in 1..(Len(q) - 1) : q[i] <= q[i + 1]

\* Twice the median of a non-empty sequence of numbers.
RefTwiceMedian(v) ==
  LET q == RefAscending(v)
      n == Len(q)
  IN IF n % 2 = 1 THEN 2 * q[(n + 1) \div 2] ELSE q[n \div 2] + q[n \div 2 + 1]

\* The entry of the ascending order at 0-based index max(0, floor(0.95 n) - 1).
RefP95(v) ==
  LET q == RefAscending(v)
      i == (95 * Len(q)) \div 100
  IN q[IF i <= 1 THEN 1 ELSE i]

\* The error text of the last failed call, <<>> when no call failed.
LastErrorText ==
  LET bad == SelectSeq(calls, LAMBDA r : ~r.ok)
  IN IF bad = <<>> THEN <<>> ELSE <<bad[Len(bad)].text>>

\* The warm-up was made; the loop is over (whatever the entry point did
\* after it).
InLoop == select_runs > 0 /\ pc # "warmup"
LoopOver == select_runs > 0 /\ pc \notin {"warmup", "sampling"}

\* The loop's records match the calls made: one sample per run, in run order,
\* NaN for a failed run, the last failure's text in select_error.
SamplesMatchCalls ==
  /\ Len(calls) = Len(samples) + 1
  /\ \A i \in 1..Len(samples) :
       LET r == calls[i + 1]
       IN IF r.ok THEN samples[i] = Measured(r.ms) ELSE samples[i] = NaN
  /\ ok = Len(SuccessfulMs)
  /\ IF LastErrorText = <<>>
     THEN "select_error" \notin DOMAIN acc
     ELSE "select_error" \in DOMAIN acc /\ acc["select_error"] = LastErrorText[1]

\* The statistics are in the metrics exactly when a run succeeded, and are
\* those of the successful runs.
StatsMatchCalls ==
  LET stats == {"select_median_ms", "select_p95_ms"}
  IN IF SuccessfulMs = <<>>
     THEN /\ pc # "agg_timed"
          /\ stats \cap DOMAIN acc = {}
     ELSE /\ pc # "agg_untimed"
          /\ stats \subseteq DOMAIN acc
          /\ acc["select_median_ms"] = RefTwiceMedian(SuccessfulMs)
          /\ acc["select_p95_ms"] = RefP95(SuccessfulMs)

\* The sampling loop in every state: the records match the calls, and after
\* the loop there are exactly N samples and the statistics of the successful
\* ones.
SamplingRecords ==
  /\ InLoop => SamplesMatchCalls
  /\ LoopOver => Len(samples) = select_runs /\ StatsMatchCalls

\* The step that ends the loop: the combined score is replaced by a three-way
\* blend with the written median when a run succeeded, and the metrics are
\* left as they were otherwise.
FinishStep ==
  (pc = "sampling" /\ pc' # "sampling")
    => IF SuccessfulMs # <<>>
       THEN /\ pc' = "agg_timed"
            /\ \E env \in WeightsEnv :
                 acc'["combined_score"] = CombinedTimed(acc', env)
       ELSE /\ pc' = "agg_untimed"
            /\ acc' = acc

\* The steps of the loop: the warm-up is followed by the first run whatever
\* its outcome, a run before the N-th is followed by the next run, and no
\* call of _run_select ends the entry point in an error.
LoopStep ==
  /\ pc = "warmup" => pc' = "sampling" /\ samples' = <<>>
  /\ (pc = "sampling" /\ Len(samples) < select_runs)
       => pc' = "sampling" /\ Len(samples') = Len(samples) + 1
  /\ calls' # calls => err' = err /\ pc' # "error"

\* C12: with N > 0 requested runs, a failure of the warm-up or of a run never
\* aborts the batch: the N runs are made in order and exactly N samples are
\* recorded, a failed run as NaN with its error text put in select_error; the
\* median, the p95 and the recomputed combined score are written if and only
\* if at least one run succeeded, and are computed from the successful
\* samples only.
C12_FailuresNeverAbortBatch ==
  /\ []SamplingRecords
  /\ [][FinishStep /\ LoopStep]_vars

\* Three runs were requested; the warm-up failed, the first run failed, the
\* other two succeeded with different times, and the statistics were written.
C12_Witness ==
  /\ pc = "agg_timed"
  /\ select_runs = MaxRuns
  /\ Len(calls) = MaxRuns + 1
  /\ ~calls[1].ok
  /\ ~calls[2].ok
  /\ calls[2].text # calls[1].text
  /\ samples[1] = NaN
  /\ ok = MaxRuns - 1
  /\ samples[2].ms > samples[MaxRuns].ms
  /\ acc["select_error"] = calls[2].text
  /\ acc["select_p95_ms"] < samples[2].ms
=============================================================================
